---- MODULE Spec2Model ----
(***************************************************************************)
(* memflow-vdm: the mapping cache and the address-translation context.     *)
(*                                                                         *)
(*   Spec      src/src/lib.rs: init_connector, PhysicalMemoryRegionMapper  *)
(*             (new / Drop) and the clones of VdmMapData, over the         *)
(*             RTCore64 adapter of src/memflow-rtcore/src/lib.rs.          *)
(*   SpecCtx   the translation context over PhysicalMemoryMapper           *)
(*             (src/memflow-vdm/src/sys/phys_mapper.rs) and Service        *)
(*             (src/memflow-vdm/src/sys/service.rs): clones and teardown.  *)
(*   SpecHot   src/memflow-vdm/src/lib.rs: VdmConnector, the batched reads *)
(*             and writes over the PhysMem default methods, with the WinIo *)
(*             adapter of src/memflow-winio/src/lib.rs.                    *)
(*                                                                         *)
(* The driver is the environment: it answers each map request with an      *)
(* address or a failure and each unmap or stop request with success or     *)
(* failure; `calls` is its record of the requests it received.             *)
(***************************************************************************)
EXTENDS Integers, Sequences, FiniteSets, TLC

\* ---------------------------------------------------------------- bounds
MaxRanges == 2
MaxAddr == 2
MaxSize == 2
MaxVirt == 1
NumThreads == 2
MaxStrong == 3

\* The span of the u32 size field of PhysicalMemoryMappingRequest, 2^32 in the
\* program, scaled down to a value TLC's integers can exceed.
U32Span == 4

Threads == 1 .. NumThreads
Main == 1
PhysAddrs == 0 .. MaxAddr
Sizes == 1 .. MaxSize
Virts == 0 .. MaxVirt

\* PhysicalMemoryRange { start_addr, end_addr, size } (src/src/phys_ranges.rs)
PhysicalMemoryRange == [start_addr : PhysAddrs, size : Sizes]

RangeLists == UNION {[1 .. n -> PhysicalMemoryRange] : n \in 0 .. MaxRanges}

VARIABLES
    ranges,     \* the ranges get_phys_mem_ranges returned
    pc,         \* position of the constructing thread
    collected,  \* the Vec being collected by the map iterator
    mappings,   \* PhysicalMemoryRegionMapper.mappings
    addr_map,   \* VdmMapData.addr_map, the translation table
    strong,     \* strong count of the Arc around the mapper
    held,       \* per thread: number of VdmMapData clones it owns
    tpc,        \* per thread: "idle", "drop" (inside Drop of the mapper), "done"
    dropRuns,   \* how many times Drop of the mapper has been entered
    calls,      \* the driver's record of the requests it received, in order
    nextId,     \* the driver's count of successful map requests
    svcStrong,  \* strong count of the shared reference to the Service
    iter,       \* Drop for PhysicalMemoryMapper: mappings already visited
    hpc,        \* VdmConnector: "idle" or inside a batched read / write
    inp,        \* the elements of the running batch not yet processed
    out,        \* elements reported to the success sink
    out_fail,   \* elements reported to the failure sink
    copies,     \* the copies made through mappings, in order
    hret,       \* what the last batched read / write returned
    begun,      \* number of elements handed to batched reads / writes so far
    sinks,      \* which of out / out_fail the caller passes with its batches
    sstate,     \* the SCM database: dwCurrentState of the driver service, 0 = none
    slog,       \* the service operations performed, with the SCM calls they made
    hmgr,       \* the caller holds a ServiceManager
    hsvc,       \* the caller holds a Service
    rl,         \* the resource list the registry value encodes
    reg,        \* the registry value, as 16-bit units
    eout        \* what get_phys_mem_ranges returned

coreVars == <<ranges, pc, collected, mappings, addr_map, strong, held, tpc,
              dropRuns, calls, nextId>>
ctxVars == <<svcStrong, iter>>
hotVars == <<hpc, inp, out, out_fail, copies, hret, begun, sinks>>
svcVars == <<sstate, slog, hmgr, hsvc>>
enumVars == <<rl, reg, eout>>
auxVars == <<svcVars, enumVars>>
vars == <<coreVars, ctxVars, hotVars, auxVars>>

\* The variables a specification does not use stay at these values.
CtxUnused == svcStrong = 0 /\ iter = 0
HotUnused ==
    /\ hpc = "idle" /\ inp = <<>> /\ out = <<>> /\ out_fail = <<>> /\ copies = <<>>
    /\ hret = "none" /\ begun = 0 /\ sinks = [out |-> TRUE, fail |-> TRUE]
SvcUnused == sstate = 0 /\ slog = <<>> /\ hmgr = FALSE /\ hsvc = FALSE
\* What get_phys_mem_ranges returned: kind is "none" before the call, then
\* "Ok", "Err" or "crash".
EnumResult(kind, rs) == [kind |-> kind, ranges |-> rs]
EnumUnused == rl = <<>> /\ reg = <<0, 0>> /\ eout = EnumResult("none", <<>>)
AuxUnused == SvcUnused /\ EnumUnused

\* ------------------------------------------------------- the driver adapter
\* PhysicalMemoryMappingRequest { addr, size: size as u32 }.
MapRequest(addr, size) == [addr |-> addr, size |-> size % U32Span]

\* map_phys_mem with the response's fields filled from the wrong sources: the
\* address the driver answered is stored as the physical address.
map_phys_mem_swapped(addr, size, resAddr) ==
    [phys_addr |-> resAddr, size |-> size, virt_addr |-> addr]

\* RtCore64Driver::map_phys_mem after a successful IOCTL: resAddr is the address
\* the driver wrote into PhysicalMemoryMappingResponse; the request is
\* { addr, size as u32 } and the boxed response is built from addr, size and
\* req.addr.
map_phys_mem(addr, size, resAddr) ==
    [phys_addr |-> addr, size |-> size, virt_addr |-> MapRequest(addr, size).addr]

\* A mapping as the core holds it: the adapter's response, tagged with the
\* number of the map request that produced it (the identity of the Box).
Tagged(resp, id) ==
    [id |-> id, phys_addr |-> resp.phys_addr, size |-> resp.size,
     virt_addr |-> resp.virt_addr]

\* PhysicalMemoryUnmappingRequest { addr: res.virt_addr() }.
UnmapRequest(m) == [addr |-> m.virt_addr]

NoMapping == [id |-> 0, phys_addr |-> 0, size |-> 0, virt_addr |-> 0]

\* The driver's record of one map_phys_mem: the request it received, the
\* address it answered, and the value the adapter returned to the core.
MapCall(addr, size, resAddr, ok, val) ==
    [op |-> "map", req |-> MapRequest(addr, size), out |-> resAddr, ok |-> ok, val |-> val]

\* The driver's record of one unmap_phys_mem(m).
UnmapCall(m, ok) ==
    [op |-> "unmap", req |-> UnmapRequest(m), out |-> 0, ok |-> ok, val |-> m]

\* ------------------------------------------------------ the translation table
\* MemoryMap::push as used by push_remap(base, size, real_base): the table is
\* kept sorted by base; scanning from the back, the entry is placed before every
\* entry that lies wholly above it, and an entry that overlaps it panics.
\* PushIdx is the insertion index, 0 for the panic.
\* PushIdx without the overlap test: an entry is placed by its base only.
RECURSIVE PushIdxNoOverlapCheck(_, _, _, _)
PushIdxNoOverlapCheck(tbl, e, i, shift) ==
    IF i = 0 THEN shift
    ELSE IF e.base >= tbl[i].base THEN shift
    ELSE PushIdxNoOverlapCheck(tbl, e, i - 1, i)

RECURSIVE PushIdx(_, _, _, _)
PushIdx(tbl, e, i, shift) ==
    IF i = 0 THEN shift
    ELSE IF e.base >= tbl[i].base + tbl[i].size THEN shift
    ELSE IF e.base + e.size <= tbl[i].base THEN PushIdx(tbl, e, i - 1, i)
    ELSE 0

InsertAt(s, i, e) == SubSeq(s, 1, i - 1) \o <<e>> \o SubSeq(s, i, Len(s))

\* [ok, map]: ok = FALSE is the panic of an overlapping push.
push_remap(mm, base, size, real_base) ==
    LET e == [base |-> base, size |-> size, real_base |-> real_base]
        idx == PushIdx(mm.map, e, Len(mm.map), Len(mm.map) + 1)
    IN  IF ~mm.ok \/ idx = 0 THEN [ok |-> FALSE, map |-> <<>>]
        ELSE [ok |-> TRUE, map |-> InsertAt(mm.map, idx, e)]

\* The loop of init_connector (and the fold of addr_map): one push_remap per
\* mapping, in the order of the mappings.
RECURSIVE FoldMappings(_, _)
FoldMappings(mm, ms) ==
    IF ms = <<>> THEN mm
    ELSE FoldMappings(
            push_remap(mm, Head(ms).phys_addr, Head(ms).size, Head(ms).virt_addr),
            Tail(ms))

MemoryMapNew == [ok |-> TRUE, map |-> <<>>]

\* ------------------------------------------------------------------ Spec
Init ==
    /\ ranges = <<>>
    /\ pc = "enum"
    /\ collected = <<>>
    /\ mappings = <<>>
    /\ addr_map = <<>>
    /\ strong = 0
    /\ held = [t \in Threads |-> 0]
    /\ tpc = [t \in Threads |-> "idle"]
    /\ dropRuns = 0
    /\ calls = <<>>
    /\ nextId = 0
    /\ CtxUnused
    /\ HotUnused
    /\ AuxUnused

\* PhysicalMemoryRegionMapper::new: get_phys_mem_ranges()? returns the ranges.
EnumOk ==
    /\ pc = "enum"
    /\ ranges' \in RangeLists
    /\ pc' = "new"
    /\ UNCHANGED <<collected, mappings, addr_map, strong, held, tpc, dropRuns, calls,
                   nextId, ctxVars, hotVars, auxVars>>

\* get_phys_mem_ranges()? returns the registry's error: nothing was mapped.
EnumErr ==
    /\ pc = "enum"
    /\ pc' = "failed"
    /\ UNCHANGED <<ranges, collected, mappings, addr_map, strong, held, tpc, dropRuns,
                   calls, nextId, ctxVars, hotVars, auxVars>>

\* PhysicalMemoryRegionMapper::new, one element of the map iterator: the next
\* range is passed to map_phys_mem and its boxed response is collected.
MapOk ==
    /\ pc = "new"
    /\ Len(collected) < Len(ranges)
    /\ \E v \in Virts :
        LET r == ranges[Len(collected) + 1]
            m == Tagged(map_phys_mem(r.start_addr, r.size, v), nextId + 1)
        IN  /\ collected' = Append(collected, m)
            /\ calls' = Append(calls, MapCall(r.start_addr, r.size, v, TRUE, m))
            /\ nextId' = nextId + 1
    /\ UNCHANGED <<ranges, pc, mappings, addr_map, strong, held, tpc, dropRuns>>
    /\ UNCHANGED <<ctxVars, hotVars, auxVars>>

\* The first Err ends collect::<Result<Vec<_>>>(): the `?` returns it, the
\* boxes collected so far and `mem` are dropped.
MapErr ==
    /\ pc = "new"
    /\ Len(collected) < Len(ranges)
    /\ LET r == ranges[Len(collected) + 1]
       IN  calls' = Append(calls, MapCall(r.start_addr, r.size, 0, FALSE, NoMapping))
    /\ collected' = <<>>
    /\ pc' = "failed"
    /\ UNCHANGED <<ranges, mappings, addr_map, strong, held, tpc, dropRuns, nextId>>
    /\ UNCHANGED <<ctxVars, hotVars, auxVars>>

\* Ok(Self { mem, mappings }) and Arc::new(Mutex::new(..)).
NewDone ==
    /\ pc = "new"
    /\ Len(collected) = Len(ranges)
    /\ mappings' = collected
    /\ collected' = <<>>
    /\ strong' = 1
    /\ pc' = "table"
    /\ UNCHANGED <<ranges, addr_map, held, tpc, dropRuns, calls, nextId>>
    /\ UNCHANGED <<ctxVars, hotVars, auxVars>>

\* init_connector, lines 105-117: the table is filled from the mappings and the
\* first VdmMapData is handed to the caller.
BuildTable ==
    /\ pc = "table"
    /\ FoldMappings(MemoryMapNew, mappings).ok
    /\ addr_map' = FoldMappings(MemoryMapNew, mappings).map
    /\ held' = [held EXCEPT ![Main] = 1]
    /\ pc' = "built"
    /\ UNCHANGED <<ranges, collected, mappings, strong, tpc, dropRuns, calls, nextId>>
    /\ UNCHANGED <<ctxVars, hotVars, auxVars>>

\* push_remap panics on overlapping mappings. With unwinding the Arc local is
\* dropped (the mapper's Drop runs on the constructing thread); with
\* panic=abort the process ends at once.
BuildTablePanic ==
    /\ pc = "table"
    /\ ~FoldMappings(MemoryMapNew, mappings).ok
    /\ \/ /\ pc' = "unwound"
          /\ strong' = 0
          /\ tpc' = [tpc EXCEPT ![Main] = "drop"]
          /\ dropRuns' = dropRuns + 1
       \/ /\ pc' = "aborted"
          /\ UNCHANGED <<strong, tpc, dropRuns>>
    /\ UNCHANGED <<ranges, collected, mappings, addr_map, held, calls, nextId>>
    /\ UNCHANGED <<ctxVars, hotVars, auxVars>>

\* Clone that copies the pointer to the mapper without raising the strong count.
CloneNoCount(t, u) ==
    /\ pc = "built"
    /\ held[t] > 0
    /\ strong < MaxStrong
    /\ held[u] < MaxStrong
    /\ held' = [held EXCEPT ![u] = @ + 1]
    /\ UNCHANGED <<ranges, pc, collected, mappings, addr_map, strong, tpc, dropRuns,
                   calls, nextId>>
    /\ UNCHANGED <<ctxVars, hotVars, auxVars>>

\* VdmMapData::clone by thread t; the clone is moved to thread u.
Clone(t, u) ==
    /\ pc = "built"
    /\ held[t] > 0
    /\ strong < MaxStrong
    /\ strong' = strong + 1
    /\ held' = [held EXCEPT ![u] = @ + 1]
    /\ UNCHANGED <<ranges, pc, collected, mappings, addr_map, tpc, dropRuns, calls, nextId>>
    /\ UNCHANGED <<ctxVars, hotVars, auxVars>>

\* Arc::drop: the holder whose fetch_sub saw 1 runs the destructor.
ArcIsLast(prev) == prev = 1

\* DropClone as if every VdmMapData owned the mapper: each drop unmaps.
DropCloneUnshared(t) ==
    /\ pc = "built"
    /\ held[t] > 0
    /\ tpc[t] = "idle"
    /\ held' = [held EXCEPT ![t] = @ - 1]
    /\ strong' = strong - 1
    /\ tpc' = [tpc EXCEPT ![t] = "drop"]
    /\ dropRuns' = dropRuns + 1
    /\ UNCHANGED <<ranges, pc, collected, mappings, addr_map, calls, nextId>>
    /\ UNCHANGED <<ctxVars, hotVars, auxVars>>

\* Thread t drops one VdmMapData: its phys_mapper field (the Arc) is released.
DropClone(t) ==
    /\ pc = "built"
    /\ held[t] > 0
    /\ tpc[t] = "idle"
    /\ held' = [held EXCEPT ![t] = @ - 1]
    /\ strong' = strong - 1
    /\ IF ArcIsLast(strong)
       THEN /\ tpc' = [tpc EXCEPT ![t] = "drop"]
            /\ dropRuns' = dropRuns + 1
       ELSE UNCHANGED <<tpc, dropRuns>>
    /\ UNCHANGED <<ranges, pc, collected, mappings, addr_map, calls, nextId>>
    /\ UNCHANGED <<ctxVars, hotVars, auxVars>>

\* UnmapNext advancing the drain by two: every second mapping is never unmapped.
UnmapNextSkip(t) ==
    /\ tpc[t] = "drop"
    /\ mappings # <<>>
    /\ \E ok \in BOOLEAN :
        calls' = Append(calls, UnmapCall(Head(mappings), ok))
    /\ mappings' = IF Len(mappings) > 1 THEN Tail(Tail(mappings)) ELSE <<>>
    /\ UNCHANGED <<ranges, pc, collected, addr_map, strong, held, tpc, dropRuns, nextId>>
    /\ UNCHANGED <<ctxVars, hotVars, auxVars>>

\* UnmapNext that calls unmap a second time when the first call failed.
UnmapNextRetry(t) ==
    /\ tpc[t] = "drop"
    /\ mappings # <<>>
    /\ \E ok \in BOOLEAN :
        calls' = IF ok THEN Append(calls, UnmapCall(Head(mappings), TRUE))
                 ELSE calls \o <<UnmapCall(Head(mappings), FALSE),
                                 UnmapCall(Head(mappings), TRUE)>>
    /\ mappings' = Tail(mappings)
    /\ UNCHANGED <<ranges, pc, collected, addr_map, strong, held, tpc, dropRuns, nextId>>
    /\ UNCHANGED <<ctxVars, hotVars, auxVars>>

\* UnmapNext that leaves the loop at the first failing unmap (`?` instead of
\* `let _ =`): the remaining mappings are dropped without an unmap.
UnmapNextStopOnErr(t) ==
    /\ tpc[t] = "drop"
    /\ mappings # <<>>
    /\ \E ok \in BOOLEAN :
        /\ calls' = Append(calls, UnmapCall(Head(mappings), ok))
        /\ mappings' = IF ok THEN Tail(mappings) ELSE <<>>
    /\ UNCHANGED <<ranges, pc, collected, addr_map, strong, held, tpc, dropRuns, nextId>>
    /\ UNCHANGED <<ctxVars, hotVars, auxVars>>

\* Drop for PhysicalMemoryRegionMapper, one turn of the drain loop: the next
\* mapping is taken out of the Vec and passed to unmap_phys_mem, whose result
\* is discarded.
UnmapNext(t) ==
    /\ tpc[t] = "drop"
    /\ mappings # <<>>
    /\ \E ok \in BOOLEAN :
        calls' = Append(calls, UnmapCall(Head(mappings), ok))
    /\ mappings' = Tail(mappings)
    /\ UNCHANGED <<ranges, pc, collected, addr_map, strong, held, tpc, dropRuns, nextId>>
    /\ UNCHANGED <<ctxVars, hotVars, auxVars>>

DropDone(t) ==
    /\ tpc[t] = "drop"
    /\ mappings = <<>>
    /\ tpc' = [tpc EXCEPT ![t] = "done"]
    /\ UNCHANGED <<ranges, pc, collected, mappings, addr_map, strong, held, dropRuns,
                   calls, nextId>>
    /\ UNCHANGED <<ctxVars, hotVars, auxVars>>

Next ==
    \/ EnumOk
    \/ EnumErr
    \/ MapOk
    \/ MapErr
    \/ NewDone
    \/ BuildTable
    \/ BuildTablePanic
    \/ \E t, u \in Threads : Clone(t, u)
    \/ \E t \in Threads : DropClone(t)
    \/ \E t \in Threads : UnmapNext(t)
    \/ \E t \in Threads : DropDone(t)

Spec == Init /\ [][Next]_vars

\* --------------------------------------------------------------- SpecCtx
\* The translation context of the builder variant: a PhysicalMemoryMapper
\* (src/memflow-vdm/src/sys/phys_mapper.rs) and an optional Service
\* (src/memflow-vdm/src/sys/service.rs), each behind its own shared reference.
\* The context type itself is not among the sources; its clone and drop follow
\* sections 3 and 4.5 of the specification.

\* PhysicalMemoryRange { addr, size } (src/memflow-vdm/src/sys/phys_ranges.rs)
SysPhysicalMemoryRange == [addr : PhysAddrs, size : Sizes]

SysRangeLists == UNION {[1 .. n -> SysPhysicalMemoryRange] : n \in 0 .. MaxRanges}

\* The driver capability map(phys_addr, size) -> Mapping of section 4.3.
map_physical_memory(addr, size, virt) ==
    [phys_addr |-> addr, size |-> size, virt_addr |-> virt]

\* PhysicalMemoryMapper::map_ranges when every map succeeds: the collected
\* responses, in the order of the ranges.
map_ranges(rs, outs) ==
    [i \in 1 .. Len(rs) |->
        Tagged(map_physical_memory(rs[i].addr, rs[i].size, outs[i]), i)]

\* PhysicalMemoryMapper::addr_map.
addr_map_of(ms) == FoldMappings(MemoryMapNew, ms)

DrvMapCall(m, resAddr) ==
    [op |-> "map", req |-> [addr |-> m.phys_addr, size |-> m.size], out |-> resAddr,
     ok |-> TRUE, val |-> m]

DrvUnmapCall(m, ok) ==
    [op |-> "unmap", req |-> m, out |-> 0, ok |-> ok, val |-> m]

\* Service::stop: ControlService(handle, SERVICE_CONTROL_STOP, ..).
StopCall(ok) ==
    [op |-> "stop", req |-> [control |-> "SERVICE_CONTROL_STOP"], out |-> 0,
     ok |-> ok, val |-> NoMapping]

\* The state build() leaves: the service (if any) running and held by the
\* context, every range mapped, the table built, one context in the caller's
\* hands.
CtxInit ==
    \E rs \in SysRangeLists, hasService \in BOOLEAN :
        \E outs \in [1 .. Len(rs) -> Virts] :
            /\ addr_map_of(map_ranges(rs, outs)).ok
            /\ ranges = rs
            /\ mappings = map_ranges(rs, outs)
            /\ addr_map = addr_map_of(map_ranges(rs, outs)).map
            /\ calls = [i \in 1 .. Len(rs) |-> DrvMapCall(map_ranges(rs, outs)[i], outs[i])]
            /\ nextId = Len(rs)
            /\ svcStrong = IF hasService THEN 1 ELSE 0
            /\ pc = "built"
            /\ collected = <<>>
            /\ strong = 1
            /\ held = [t \in Threads |-> IF t = Main THEN 1 ELSE 0]
            /\ tpc = [t \in Threads |-> "idle"]
            /\ dropRuns = 0
            /\ iter = 0
            /\ HotUnused
            /\ AuxUnused
    /\ AuxUnused

\* Clone of the context by thread t, moved to thread u: the cache and the
\* service are shared by reference.
CtxClone(t, u) ==
    /\ held[t] > 0
    /\ tpc[t] = "idle"
    /\ strong < MaxStrong
    /\ strong' = strong + 1
    /\ svcStrong' = IF svcStrong > 0 THEN svcStrong + 1 ELSE 0
    /\ held' = [held EXCEPT ![u] = @ + 1]
    /\ UNCHANGED <<ranges, pc, collected, mappings, addr_map, tpc, dropRuns, calls,
                   nextId, iter, hotVars, auxVars>>

\* Drop of a context, steps (a) and (b) of section 4.5: the shared reference to
\* the cache is released; the last release runs the mapper's destructor.
CtxDropCache(t) ==
    /\ held[t] > 0
    /\ tpc[t] = "idle"
    /\ held' = [held EXCEPT ![t] = @ - 1]
    /\ strong' = strong - 1
    /\ IF ArcIsLast(strong)
       THEN /\ tpc' = [tpc EXCEPT ![t] = "drop"]
            /\ dropRuns' = dropRuns + 1
       ELSE /\ tpc' = [tpc EXCEPT ![t] = "svc"]
            /\ UNCHANGED dropRuns
    /\ UNCHANGED <<ranges, pc, collected, mappings, addr_map, calls, nextId, svcStrong,
                   iter, hotVars, auxVars>>

\* PmmUnmapNext leaving out every second mapping.
PmmUnmapNextSkip(t) ==
    /\ tpc[t] = "drop"
    /\ iter < Len(mappings)
    /\ \E ok \in BOOLEAN :
        calls' = Append(calls, DrvUnmapCall(mappings[iter + 1], ok))
    /\ iter' = IF iter + 2 <= Len(mappings) THEN iter + 2 ELSE Len(mappings)
    /\ UNCHANGED <<ranges, pc, collected, mappings, addr_map, strong, held, tpc,
                   dropRuns, nextId, svcStrong, hotVars, auxVars>>

\* Drop for PhysicalMemoryMapper, one turn of `for mapping in &self.mappings`:
\* unmap_physical_memory(mapping), its result discarded.
PmmUnmapNext(t) ==
    /\ tpc[t] = "drop"
    /\ iter < Len(mappings)
    /\ \E ok \in BOOLEAN :
        calls' = Append(calls, DrvUnmapCall(mappings[iter + 1], ok))
    /\ iter' = iter + 1
    /\ UNCHANGED <<ranges, pc, collected, mappings, addr_map, strong, held, tpc,
                   dropRuns, nextId, svcStrong, hotVars, auxVars>>

\* The loop is over; the fields mem and mappings are dropped.
PmmDropDone(t) ==
    /\ tpc[t] = "drop"
    /\ iter = Len(mappings)
    /\ mappings' = <<>>
    /\ iter' = 0
    /\ tpc' = [tpc EXCEPT ![t] = "svc"]
    /\ UNCHANGED <<ranges, pc, collected, addr_map, strong, held, dropRuns, calls,
                   nextId, svcStrong, hotVars, auxVars>>

\* Drop of a context, step (c): the shared reference to the service is
\* released; the last release sends the stop control, whose failure is swallowed.
CtxDropService(t) ==
    /\ tpc[t] = "svc"
    /\ tpc' = [tpc EXCEPT ![t] = "idle"]
    /\ IF svcStrong = 0 THEN UNCHANGED <<svcStrong, calls>>
       ELSE /\ svcStrong' = svcStrong - 1
            /\ IF ArcIsLast(svcStrong)
               THEN \E ok \in BOOLEAN : calls' = Append(calls, StopCall(ok))
               ELSE UNCHANGED calls
    /\ UNCHANGED <<ranges, pc, collected, mappings, addr_map, strong, held, dropRuns,
                   nextId, iter, hotVars, auxVars>>

CtxNext ==
    \/ \E t, u \in Threads : CtxClone(t, u)
    \/ \E t \in Threads : CtxDropCache(t)
    \/ \E t \in Threads : PmmUnmapNext(t)
    \/ \E t \in Threads : PmmDropDone(t)
    \/ \E t \in Threads : CtxDropService(t)

SpecCtx == CtxInit /\ [][CtxNext]_vars

\* --------------------------------------------------------------- SpecPmm
\* PhysicalMemoryMapper<M> of src/memflow-vdm/src/sys/phys_mapper.rs used on its
\* own: with_mem, any number of map_ranges calls, then Drop. One map_ranges is
\* followed range by range, so that a failing map of the driver can end it.
MaxPmmCalls == 4

\* The driver's record of a map_physical_memory that returned Err.
DrvMapErrCall(r) ==
    [op |-> "map", req |-> [addr |-> r.addr, size |-> r.size], out |-> 0,
     ok |-> FALSE, val |-> NoMapping]

\* with_mem(mem): Ok(Self { mem, mappings: Vec::new() }), owned by one holder.
PmmInit ==
    /\ ranges = <<>> /\ pc = "idle" /\ collected = <<>> /\ mappings = <<>>
    /\ addr_map = <<>> /\ calls = <<>> /\ nextId = 0
    /\ strong = 1
    /\ held = [t \in Threads |-> IF t = Main THEN 1 ELSE 0]
    /\ tpc = [t \in Threads |-> "idle"]
    /\ dropRuns = 0
    /\ CtxUnused
    /\ HotUnused
    /\ AuxUnused

\* map_ranges(&mut self, ranges) is entered: ranges.iter().map(..).collect()
\* starts with nothing collected; self.mappings is not touched yet.
PmmMapRanges(rs) ==
    /\ held[Main] = 1
    /\ tpc[Main] = "idle"
    /\ pc \in {"idle", "mapped", "failed"}
    /\ Len(calls) + Len(rs) <= MaxPmmCalls
    /\ ranges' = rs
    /\ collected' = <<>>
    /\ pc' = "map"
    /\ UNCHANGED <<mappings, addr_map, strong, held, tpc, dropRuns, calls, nextId,
                   ctxVars, hotVars, auxVars>>

\* One turn of the iterator: self.mem.map_physical_memory(r.addr, r.size)
\* returns Ok(response), which collect keeps.
PmmMapOk ==
    /\ pc = "map"
    /\ Len(collected) < Len(ranges)
    /\ \E v \in Virts :
        LET r == ranges[Len(collected) + 1]
            m == Tagged(map_physical_memory(r.addr, r.size, v), nextId + 1)
        IN  /\ collected' = Append(collected, m)
            /\ calls' = Append(calls, DrvMapCall(m, v))
            /\ nextId' = nextId + 1
    /\ UNCHANGED <<ranges, pc, mappings, addr_map, strong, held, tpc, dropRuns,
                   ctxVars, hotVars, auxVars>>

\* One turn of the iterator returns Err: collect::<Result<Vec<_>>>() stops, `?`
\* returns the error; the responses collected so far are dropped, and the
\* assignment to self.mappings does not happen.
PmmMapErr ==
    /\ pc = "map"
    /\ Len(collected) < Len(ranges)
    /\ calls' = Append(calls, DrvMapErrCall(ranges[Len(collected) + 1]))
    /\ collected' = <<>>
    /\ pc' = "failed"
    /\ UNCHANGED <<ranges, mappings, addr_map, strong, held, tpc, dropRuns, nextId,
                   ctxVars, hotVars, auxVars>>

\* Every range is mapped: self.mappings = <the collected Vec>; the Vec that
\* was in self.mappings is dropped; Ok(()).
PmmMapDone ==
    /\ pc = "map"
    /\ Len(collected) = Len(ranges)
    /\ mappings' = collected
    /\ collected' = <<>>
    /\ pc' = "mapped"
    /\ UNCHANGED <<ranges, addr_map, strong, held, tpc, dropRuns, calls, nextId,
                   ctxVars, hotVars, auxVars>>

\* The holder drops the mapper: Drop::drop starts at the first mapping.
PmmDrop ==
    /\ held[Main] = 1
    /\ tpc[Main] = "idle"
    /\ pc \in {"idle", "mapped", "failed"}
    /\ held' = [held EXCEPT ![Main] = 0]
    /\ strong' = 0
    /\ tpc' = [tpc EXCEPT ![Main] = "drop"]
    /\ iter' = 0
    /\ UNCHANGED <<ranges, pc, collected, mappings, addr_map, dropRuns, calls, nextId,
                   svcStrong, hotVars, auxVars>>

PmmNext ==
    \/ \E rs \in SysRangeLists : PmmMapRanges(rs)
    \/ PmmMapOk
    \/ PmmMapErr
    \/ PmmMapDone
    \/ PmmDrop
    \/ PmmUnmapNext(Main)
    \/ PmmDropDone(Main)

SpecPmm == PmmInit /\ [][PmmNext]_vars

\* ---------------------------------------------------------------- SpecRt
\* RtCore64Driver (src/memflow-rtcore/src/lib.rs) called through the
\* PhysicalMemory trait by any holder: map_phys_mem with a usize size, which
\* may exceed 32 bits, and unmap_phys_mem of a mapping obtained earlier.
MaxRtCalls == 3

\* usize values on both sides of the u32 range.
RtSizes == 0 .. 2 * U32Span - 1

RtInit ==
    /\ ranges = <<>> /\ pc = "built" /\ collected = <<>> /\ mappings = <<>>
    /\ addr_map = <<>> /\ calls = <<>> /\ nextId = 0
    /\ strong = 0
    /\ held = [t \in Threads |-> 0]
    /\ tpc = [t \in Threads |-> "idle"]
    /\ dropRuns = 0
    /\ CtxUnused
    /\ HotUnused
    /\ AuxUnused

\* map_phys_mem(addr, size), the IOCTL succeeding: the boxed response goes to
\* the caller.
RtMapOk ==
    /\ Len(calls) < MaxRtCalls
    /\ \E addr \in PhysAddrs, size \in RtSizes, v \in Virts :
        LET m == Tagged(map_phys_mem(addr, size, v), nextId + 1)
        IN  /\ mappings' = Append(mappings, m)
            /\ calls' = Append(calls, MapCall(addr, size, v, TRUE, m))
    /\ nextId' = nextId + 1
    /\ UNCHANGED <<ranges, pc, collected, addr_map, strong, held, tpc, dropRuns,
                   ctxVars, hotVars, auxVars>>

\* map_phys_mem(addr, size), DeviceIoControl failing: `?` returns the error.
RtMapErr ==
    /\ Len(calls) < MaxRtCalls
    /\ \E addr \in PhysAddrs, size \in RtSizes :
        calls' = Append(calls, MapCall(addr, size, 0, FALSE, NoMapping))
    /\ UNCHANGED <<ranges, pc, collected, mappings, addr_map, strong, held, tpc,
                   dropRuns, nextId, ctxVars, hotVars, auxVars>>

\* unmap_phys_mem(mapping): the box is consumed, the IOCTL's result returned.
RtUnmap ==
    /\ Len(calls) < MaxRtCalls
    /\ \E k \in DOMAIN mappings, ok \in BOOLEAN :
        /\ calls' = Append(calls, UnmapCall(mappings[k], ok))
        /\ mappings' = [i \in 1 .. Len(mappings) - 1 |->
                            IF i < k THEN mappings[i] ELSE mappings[i + 1]]
    /\ UNCHANGED <<ranges, pc, collected, addr_map, strong, held, tpc, dropRuns,
                   nextId, ctxVars, hotVars, auxVars>>

RtNext ==
    \/ RtMapOk
    \/ RtMapErr
    \/ RtUnmap

SpecRt == RtInit /\ [][RtNext]_vars

\* --------------------------------------------------------------- SpecHot
\* The map-per-access connector of src/memflow-vdm/src/lib.rs (VdmConnector
\* over a boxed PhysMem) with the WinIo adapter of src/memflow-winio/src/lib.rs.
PAGE_SIZE == 4096
MaxPages == 2
MaxOps == 2

BufLens == {1} \cup {k * PAGE_SIZE : k \in 1 .. MaxPages}
               \cup {k * PAGE_SIZE + 1 : k \in 1 .. MaxPages}
HotAddrs == {0, PAGE_SIZE}

\* What the WinIo driver fills in on a map request.
DrvAnswers == {[section_handle |-> 10 + v, virt_addr |-> v, obj_handle |-> 20 + v] :
                    v \in Virts}

\* MapUnmapPhysMemRequest { size, phys_addr, ..Default::default() }.
WinIoMapRequest(addr, size) ==
    [size |-> size, phys_addr |-> addr, section_handle |-> 0, virt_addr |-> 0,
     obj_handle |-> 0]

\* WinIo::map_phys_mem, Ok: the in-out struct after the driver filled it in.
winio_map_phys_mem(addr, size, ans) ==
    [WinIoMapRequest(addr, size) EXCEPT
        !.section_handle = ans.section_handle,
        !.virt_addr = ans.virt_addr,
        !.obj_handle = ans.obj_handle]

\* WinIoUnmapRequest sending the boxed map result as it is.
WinIoUnmapRequestWhole(m) == m

\* WinIo::unmap_phys_mem: the request built from the boxed result.
WinIoUnmapRequest(m) ==
    [size |-> 0, phys_addr |-> 0, section_handle |-> m.section_handle,
     virt_addr |-> m.virt_addr, obj_handle |-> m.obj_handle]

NoResult == WinIoMapRequest(0, 0)

HotMapCall(addr, size, ok, val) ==
    [op |-> "map", req |-> WinIoMapRequest(addr, size), out |-> val.virt_addr,
     ok |-> ok, val |-> val]

HotUnmapCall(m, ok) ==
    [op |-> "unmap", req |-> WinIoUnmapRequest(m), out |-> 0, ok |-> ok, val |-> m]

\* MapCopyUnmap with the result of the unmap discarded (`let _ = ..; Ok(())`).
MapCopyUnmapSwallow(dir, addr, off, len, ans, mapOk, unmapOk) ==
    IF ~mapOk
    THEN [ok |-> FALSE, calls |-> <<HotMapCall(addr, len, FALSE, NoResult)>>,
          copies |-> <<>>]
    ELSE LET m == winio_map_phys_mem(addr, len, ans)
         IN  [ok |-> TRUE,
              calls |-> <<HotMapCall(addr, len, TRUE, m), HotUnmapCall(m, unmapOk)>>,
              copies |-> <<[dir |-> dir, virt |-> m.virt_addr, phys |-> addr,
                           off |-> off, len |-> len]>>]

\* The body shared by PhysMem::phys_read_raw_into and PhysMem::phys_write_raw:
\* map (`?`), copy_nonoverlapping of len bytes, unmap, whose result is returned.
\* off is the offset of buf in the caller's buffer.
MapCopyUnmap(dir, addr, off, len, ans, mapOk, unmapOk) ==
    IF ~mapOk
    THEN [ok |-> FALSE, calls |-> <<HotMapCall(addr, len, FALSE, NoResult)>>,
          copies |-> <<>>]
    ELSE LET m == winio_map_phys_mem(addr, len, ans)
         IN  [ok |-> unmapOk,
              calls |-> <<HotMapCall(addr, len, TRUE, m), HotUnmapCall(m, unmapOk)>>,
              copies |-> <<[dir |-> dir, virt |-> m.virt_addr, phys |-> addr,
                           off |-> off, len |-> len]>>]

phys_read_raw_into(addr, off, len, ans, mapOk, unmapOk) ==
    MapCopyUnmap("read", addr, off, len, ans, mapOk, unmapOk)

phys_write_raw(addr, len, ans, mapOk, unmapOk) ==
    MapCopyUnmap("write", addr, 0, len, ans, mapOk, unmapOk)

Min(a, b) == IF a < b THEN a ELSE b

NumChunks(len, chunk_size) == (len + chunk_size - 1) \div chunk_size

\* The loop of phys_read_raw_chunked_into from chunk i on: chunk i is
\* buf[i * chunk_size ..] cut to chunk_size bytes and is read from
\* addr + i * chunk.len(); the first Err leaves the loop. fail numbers the
\* driver request that fails (2i + 1: the map of chunk i, 2i + 2: its unmap),
\* 0 when none does.
RECURSIVE ChunkLoop(_, _, _, _, _, _)
ChunkLoop(addr, len, chunk_size, i, ans, fail) ==
    IF i >= NumChunks(len, chunk_size)
    THEN [ok |-> TRUE, calls |-> <<>>, copies |-> <<>>]
    ELSE LET clen == Min(chunk_size, len - i * chunk_size)
             r == phys_read_raw_into(addr + i * clen, i * chunk_size, clen, ans,
                                     fail # 2 * i + 1, fail # 2 * i + 2)
             rest == ChunkLoop(addr, len, chunk_size, i + 1, ans, fail)
         IN  IF ~r.ok THEN r
             ELSE [ok |-> rest.ok, calls |-> r.calls \o rest.calls,
                   copies |-> r.copies \o rest.copies]

phys_read_raw_chunked_into(addr, len, chunk_size, ans, fail) ==
    IF len < chunk_size
    THEN [ok |-> FALSE, calls |-> <<>>, copies |-> <<>>]
    ELSE ChunkLoop(addr, len, chunk_size, 0, ans, fail)

\* The closure of phys_read_raw_iter for one element.
ReadElement(e, ans, fail) ==
    IF e.len >= PAGE_SIZE
    THEN phys_read_raw_chunked_into(e.addr, e.len, PAGE_SIZE, ans, fail)
    ELSE phys_read_raw_into(e.addr, 0, e.len, ans, fail # 1, fail # 2)

\* The requests an element can make to the driver: one map and one unmap per
\* chunk.
FailPoints(e) == 0 .. 2 * (IF e.len >= PAGE_SIZE THEN NumChunks(e.len, PAGE_SIZE) ELSE 1)

Batches == UNION {[1 .. n -> [addr : HotAddrs, len : BufLens]] : n \in 0 .. MaxOps}

Served == Len(out) + Len(out_fail)

\* The copies an element caused, with the element they were made for.
Stamped(cs, e) ==
    [i \in DOMAIN cs |->
        [dir |-> cs[i].dir, virt |-> cs[i].virt, phys |-> cs[i].phys,
         off |-> cs[i].off, len |-> cs[i].len, tag |-> e.tag, base |-> e.addr,
         total |-> e.len]]

\* VdmConnector::new: nothing is mapped.
HotInit ==
    /\ hpc = "idle"
    /\ inp = <<>>
    /\ out = <<>>
    /\ out_fail = <<>>
    /\ copies = <<>>
    /\ hret = "none"
    /\ begun = 0
    /\ sinks \in [out : BOOLEAN, fail : BOOLEAN]
    /\ calls = <<>>
    /\ ranges = <<>> /\ pc = "built" /\ collected = <<>> /\ mappings = <<>>
    /\ addr_map = <<>> /\ strong = 0 /\ held = [t \in Threads |-> 0]
    /\ tpc = [t \in Threads |-> "idle"] /\ dropRuns = 0 /\ nextId = 0
    /\ CtxUnused
    /\ AuxUnused

HotIdle == <<ranges, pc, collected, mappings, addr_map, strong, held, tpc, dropRuns,
             nextId, ctxVars, auxVars>>

\* phys_read_raw_iter / phys_write_raw_iter is called with a batch.
HotBegin(kind, batch) ==
    /\ hpc = "idle"
    /\ begun + Len(batch) <= MaxOps
    /\ hpc' = kind
    /\ hret' = "none"
    /\ begun' = begun + Len(batch)
    /\ inp' = [i \in 1 .. Len(batch) |->
                [tag |-> begun + i, addr |-> batch[i].addr, len |-> batch[i].len]]
    /\ UNCHANGED <<out, out_fail, copies, calls, sinks, HotIdle>>

\* opt_call(sink.as_deref_mut(), ..): the callback is called if there is one.
opt_call(given, sink, tag) == IF given THEN Append(sink, tag) ELSE sink

\* match result { Ok(_) => opt_call(out, ..), Err(_) => opt_call(out_fail, ..) }.
Report(ok, tag) ==
    IF ok
    THEN out' = opt_call(sinks.out, out, tag) /\ UNCHANGED out_fail
    ELSE out_fail' = opt_call(sinks.fail, out_fail, tag) /\ UNCHANGED out

\* A read batch that ends at its first failing element.
HotReadElemStop ==
    /\ hpc = "read"
    /\ inp # <<>>
    /\ \E ans \in DrvAnswers, fail \in FailPoints(Head(inp)) :
        LET r == ReadElement(Head(inp), ans, fail)
        IN  /\ calls' = calls \o r.calls
            /\ copies' = copies \o Stamped(r.copies, Head(inp))
            /\ Report(r.ok, Head(inp).tag)
            /\ inp' = IF r.ok THEN Tail(inp) ELSE <<>>
    /\ UNCHANGED <<hpc, hret, begun, sinks, HotIdle>>

\* One turn of inp.for_each in phys_read_raw_iter.
HotReadElem ==
    /\ hpc = "read"
    /\ inp # <<>>
    /\ \E ans \in DrvAnswers, fail \in FailPoints(Head(inp)) :
        LET r == ReadElement(Head(inp), ans, fail)
        IN  /\ calls' = calls \o r.calls
            /\ copies' = copies \o Stamped(r.copies, Head(inp))
            /\ Report(r.ok, Head(inp).tag)
    /\ inp' = Tail(inp)
    /\ UNCHANGED <<hpc, hret, begun, sinks, HotIdle>>

\* One turn of inp.for_each in phys_write_raw_iter.
HotWriteElem ==
    /\ hpc = "write"
    /\ inp # <<>>
    /\ \E ans \in DrvAnswers, fail \in 0 .. 2 :
        LET r == phys_write_raw(Head(inp).addr, Head(inp).len, ans, fail # 1, fail # 2)
        IN  /\ calls' = calls \o r.calls
            /\ copies' = copies \o Stamped(r.copies, Head(inp))
            /\ Report(r.ok, Head(inp).tag)
    /\ inp' = Tail(inp)
    /\ UNCHANGED <<hpc, hret, begun, sinks, HotIdle>>

\* for_each is over: Ok(()).
HotEnd ==
    /\ hpc \in {"read", "write"}
    /\ inp = <<>>
    /\ hpc' = "idle"
    /\ hret' = "Ok"
    /\ UNCHANGED <<inp, out, out_fail, copies, calls, begun, sinks, HotIdle>>

HotNext ==
    \/ \E kind \in {"read", "write"}, batch \in Batches : HotBegin(kind, batch)
    \/ HotReadElem
    \/ HotWriteElem
    \/ HotEnd

SpecHot == HotInit /\ [][HotNext]_vars

\* ------------------------------------------------ services (sys/service*.rs)
\* The caller of ServiceManager / Service performs at most MaxSvcOps operations.
MaxSvcOps == 4

\* The SCM database entry of the driver's service: 0 when there is no such
\* service, otherwise its dwCurrentState (SERVICE_STOPPED = 1 .. SERVICE_PAUSED = 7).
NoService == 0
ScmStates == 0 .. 7

\* ServiceState::from_raw.
from_raw(state) ==
    CASE state = 1 -> "Stopped"
      [] state = 2 -> "StartPending"
      [] state = 3 -> "StopPending"
      [] state = 4 -> "Running"
      [] state = 5 -> "ContinuePending"
      [] state = 6 -> "PausePending"
      [] state = 7 -> "Paused"
      [] OTHER -> "Unknown"

\* One call of the service-control API: h is the handle it returns or acts
\* on ("scm": the manager's, "service": the service's), res its result.
ScmCall(api, h, res) == [api |-> api, h |-> h, res |-> res]

\* The results the SCM can give, by the state of its database.
CreateRes(s) == IF s = NoService THEN {"Ok", "Err"} ELSE {"Exists", "Err"}
OpenRes(s) == IF s = NoService THEN {"Err"} ELSE {"Ok", "Err"}
StartRes(s) ==
    IF s = NoService THEN {"Err"}
    ELSE IF from_raw(s) = "Running" THEN {"AlreadyRunning", "Err"} ELSE {"Ok", "Err"}
StopRes(s) == IF from_raw(s) = "Running" THEN {"Ok", "Err"} ELSE {"Err"}
DeleteRes(s) == IF s = NoService THEN {"Err"} ELSE {"Ok", "Err"}

\* The SCM database after a call.
ScmAfter(s, call) ==
    IF call.res # "Ok" THEN s
    ELSE CASE call.api = "CreateServiceA" -> 1
           [] call.api = "StartServiceA" -> 4
           [] call.api = "ControlService" -> 1
           [] call.api = "DeleteService" -> NoService
           [] OTHER -> s

RECURSIVE ScmApply(_, _)
ScmApply(s, cs) == IF cs = <<>> THEN s ELSE ScmApply(ScmAfter(s, Head(cs)), Tail(cs))

\* ServiceManager::local_computer.
local_computer(res) ==
    [calls |-> <<ScmCall("OpenSCManagerA", "scm", res)>>, ret |-> res]

\* ServiceManager::open_service. name is "ok" or "nul" (an interior NUL byte).
open_service(name, res) ==
    IF name = "nul" THEN [calls |-> <<>>, ret |-> "Err"]
    ELSE [calls |-> <<ScmCall("OpenServiceA", "service", res)>>, ret |-> res]

\* A create_service that opens the service after any creation error.
create_service_open_any(name, path, createRes, openRes) ==
    IF name = "nul" THEN [calls |-> <<>>, ret |-> "Err"]
    ELSE IF path = "nonutf8" THEN [calls |-> <<>>, ret |-> "panic"]
    ELSE IF path = "nul" THEN [calls |-> <<>>, ret |-> "Err"]
    ELSE LET c == ScmCall("CreateServiceA", "service", createRes)
         IN  IF createRes = "Ok" THEN [calls |-> <<c>>, ret |-> "Ok"]
             ELSE LET o == open_service(name, openRes)
                  IN  [calls |-> <<c>> \o o.calls, ret |-> o.ret]

\* ServiceManager::create_service. path is "ok", "nul" or "nonutf8".
create_service(name, path, createRes, openRes) ==
    IF name = "nul" THEN [calls |-> <<>>, ret |-> "Err"]
    ELSE IF path = "nonutf8" THEN [calls |-> <<>>, ret |-> "panic"]
    ELSE IF path = "nul" THEN [calls |-> <<>>, ret |-> "Err"]
    ELSE LET c == ScmCall("CreateServiceA", "service", createRes)
         IN  IF createRes = "Ok" THEN [calls |-> <<c>>, ret |-> "Ok"]
             ELSE IF createRes = "Exists"
                  THEN LET o == open_service(name, openRes)
                       IN  [calls |-> <<c>> \o o.calls, ret |-> o.ret]
                  ELSE [calls |-> <<c>>, ret |-> "Err"]

\* Service::query_state, the state being s.
query_state(s, res) ==
    [call |-> ScmCall("QueryServiceStatus", "service", res),
     state |-> IF res = "Ok" THEN from_raw(s) ELSE "none"]

\* A start that skips the check of the state.
Service_start_unchecked(s, queryRes, startRes) ==
    LET q == query_state(s, queryRes)
    IN  IF queryRes # "Ok" THEN [calls |-> <<q.call>>, ret |-> "Err"]
        ELSE [calls |-> <<q.call, ScmCall("StartServiceA", "service", startRes)>>,
              ret |-> IF startRes = "Ok" THEN "Ok" ELSE "Err"]

\* Service::start.
Service_start(s, queryRes, startRes) ==
    LET q == query_state(s, queryRes)
    IN  IF queryRes # "Ok" THEN [calls |-> <<q.call>>, ret |-> "Err"]
        ELSE IF q.state = "Running" THEN [calls |-> <<q.call>>, ret |-> "Ok"]
        ELSE [calls |-> <<q.call, ScmCall("StartServiceA", "service", startRes)>>,
              ret |-> IF startRes = "Ok" THEN "Ok" ELSE "Err"]

\* Service::stop.
Service_stop(res) ==
    [calls |-> <<ScmCall("ControlService", "service", res)>>, ret |-> res]

\* Service::delete.
Service_delete(res) ==
    [calls |-> <<ScmCall("DeleteService", "service", res)>>, ret |-> res]

CoreUnused ==
    /\ ranges = <<>> /\ pc = "built" /\ collected = <<>> /\ mappings = <<>>
    /\ addr_map = <<>> /\ strong = 0 /\ held = [t \in Threads |-> 0]
    /\ tpc = [t \in Threads |-> "idle"] /\ dropRuns = 0 /\ calls = <<>> /\ nextId = 0

SvcIdle == <<coreVars, ctxVars, hotVars, enumVars>>

\* Before the first operation: no handle is held; the service may or may not
\* be installed, in any state.
SvcInit ==
    /\ sstate \in ScmStates
    /\ slog = <<>>
    /\ hmgr = FALSE
    /\ hsvc = FALSE
    /\ CoreUnused /\ CtxUnused /\ HotUnused /\ EnumUnused

\* The operation op, which made the calls r.calls and returned r.ret.
Logged(op, r) ==
    /\ Len(slog) < MaxSvcOps
    /\ \A i \in DOMAIN slog : slog[i].ret # "panic"
    /\ slog' = Append(slog, [op |-> op, calls |-> r.calls, ret |-> r.ret, pre |-> sstate])
    /\ sstate' = ScmApply(sstate, r.calls)

SvcLocalComputer ==
    /\ ~hmgr
    /\ \E res \in {"Ok", "Err"} :
        /\ Logged("local_computer", local_computer(res))
        /\ hmgr' = (res = "Ok")
    /\ UNCHANGED <<hsvc, SvcIdle>>

SvcCreateService ==
    /\ hmgr /\ ~hsvc
    /\ \E name \in {"ok", "nul"}, path \in {"ok", "nul", "nonutf8"},
          createRes \in CreateRes(sstate), openRes \in OpenRes(sstate) :
        LET r == create_service(name, path, createRes, openRes)
        IN  /\ Logged("create_service", r)
            /\ hsvc' = (r.ret = "Ok")
    /\ UNCHANGED <<hmgr, SvcIdle>>

SvcOpenService ==
    /\ hmgr /\ ~hsvc
    /\ \E name \in {"ok", "nul"}, res \in OpenRes(sstate) :
        LET r == open_service(name, res)
        IN  /\ Logged("open_service", r)
            /\ hsvc' = (r.ret = "Ok")
    /\ UNCHANGED <<hmgr, SvcIdle>>

SvcStart ==
    /\ hsvc
    /\ \E queryRes \in {"Ok", "Err"}, startRes \in StartRes(sstate) :
        Logged("start", Service_start(sstate, queryRes, startRes))
    /\ UNCHANGED <<hmgr, hsvc, SvcIdle>>

SvcStop ==
    /\ hsvc
    /\ \E res \in StopRes(sstate) : Logged("stop", Service_stop(res))
    /\ UNCHANGED <<hmgr, hsvc, SvcIdle>>

SvcDelete ==
    /\ hsvc
    /\ \E res \in DeleteRes(sstate) : Logged("delete", Service_delete(res))
    /\ UNCHANGED <<hmgr, hsvc, SvcIdle>>

SvcNext ==
    \/ SvcLocalComputer
    \/ SvcCreateService
    \/ SvcOpenService
    \/ SvcStart
    \/ SvcStop
    \/ SvcDelete

SpecSvc == SvcInit /\ [][SvcNext]_vars

\* --------------------------------- load_driver / unload_driver (src/src)
\* load_driver and unload_driver are called at most MaxLoadOps times.
MaxLoadOps == 2

\* CloseServiceHandle of a handle the SCM has just returned: it fails only
\* for an invalid handle.
Close(h) == ScmCall("CloseServiceHandle", h, "Ok")

\* A start result that is neither success nor 'already running'.
StartFailedAny(res) == res # "Ok"

\* if let Err(e) = result { if e.code() != ERROR_SERVICE_ALREADY_RUNNING ...
StartFailed(res) == res # "Ok" /\ res # "AlreadyRunning"

\* load_driver from the start request on; pre holds the calls made so far.
StartService(pre, startRes, delRes) ==
    LET st == ScmCall("StartServiceA", "service", startRes)
    IN  IF StartFailed(startRes)
        THEN [calls |-> pre \o <<st, ScmCall("DeleteService", "service", delRes),
                                 Close("service"), Close("scm")>>,
              ret |-> "Err"]
        ELSE [calls |-> pre \o <<st, Close("service"), Close("scm")>>, ret |-> "Ok"]

\* The body the two load_driver share. path is "missing", "ok" or "nonutf8";
\* openFail is what a failed open of the existing service ends in.
LoadDriverBody(openFail, path, mgrRes, createRes, openRes, startRes, delRes) ==
    LET mgr == ScmCall("OpenSCManagerA", "scm", mgrRes)
        c == ScmCall("CreateServiceA", "service", createRes)
        o == ScmCall("OpenServiceA", "service", openRes)
    IN  IF path = "missing" THEN [calls |-> <<>>, ret |-> "Err"]
        ELSE IF mgrRes # "Ok" THEN [calls |-> <<mgr>>, ret |-> "Err"]
        ELSE IF path = "nonutf8" THEN [calls |-> <<mgr>>, ret |-> "panic"]
        ELSE IF createRes = "Ok" THEN StartService(<<mgr, c>>, startRes, delRes)
        ELSE IF createRes = "Exists"
             THEN IF openRes = "Ok"
                  THEN StartService(<<mgr, c, o>>, startRes, delRes)
                  ELSE [calls |-> <<mgr, c, o>>, ret |-> openFail]
        ELSE [calls |-> <<mgr, c, Close("scm")>>, ret |-> "Err"]

\* driver.rs: OpenServiceA(..).expect("unable to open driver service").
load_driver(path, mgrRes, createRes, openRes, startRes, delRes) ==
    LoadDriverBody("panic", path, mgrRes, createRes, openRes, startRes, delRes)

\* service.rs: OpenServiceA(..)?.
service_load_driver(path, mgrRes, createRes, openRes, startRes, delRes) ==
    LoadDriverBody("Err", path, mgrRes, createRes, openRes, startRes, delRes)

\* unload_driver that goes on to DeleteService when the stop control failed.
unload_driver_delete_anyway(path, mgrRes, openRes, stopRes, delRes) ==
    LET mgr == ScmCall("OpenSCManagerA", "scm", mgrRes)
        o == ScmCall("OpenServiceA", "service", openRes)
        st == ScmCall("ControlService", "service", stopRes)
        del == ScmCall("DeleteService", "service", delRes)
    IN  IF path = "missing" THEN [calls |-> <<>>, ret |-> "Err"]
        ELSE IF mgrRes # "Ok" THEN [calls |-> <<mgr>>, ret |-> "Err"]
        ELSE IF openRes # "Ok" THEN [calls |-> <<mgr, o, Close("scm")>>, ret |-> "Err"]
        ELSE [calls |-> <<mgr, o, st, del, Close("service"), Close("scm")>>,
              ret |-> IF stopRes = "Ok" /\ delRes = "Ok" THEN "Ok" ELSE "Err"]

\* driver.rs: unload_driver.
unload_driver(path, mgrRes, openRes, stopRes, delRes) ==
    LET mgr == ScmCall("OpenSCManagerA", "scm", mgrRes)
        o == ScmCall("OpenServiceA", "service", openRes)
        st == ScmCall("ControlService", "service", stopRes)
        del == ScmCall("DeleteService", "service", delRes)
    IN  IF path = "missing" THEN [calls |-> <<>>, ret |-> "Err"]
        ELSE IF mgrRes # "Ok" THEN [calls |-> <<mgr>>, ret |-> "Err"]
        ELSE IF openRes # "Ok" THEN [calls |-> <<mgr, o, Close("scm")>>, ret |-> "Err"]
        ELSE IF stopRes # "Ok"
             THEN [calls |-> <<mgr, o, st, Close("service"), Close("scm")>>,
                   ret |-> "Err"]
        ELSE IF delRes # "Ok"
             THEN [calls |-> <<mgr, o, st, del, Close("service"), Close("scm")>>,
                   ret |-> "Err"]
        ELSE [calls |-> <<mgr, o, st, del, Close("service"), Close("scm")>>,
              ret |-> "Ok"]

\* service.rs: unload_driver; it differs in returning the result of the two
\* final CloseServiceHandle, which is Ok.
service_unload_driver(path, mgrRes, openRes, stopRes, delRes) ==
    unload_driver(path, mgrRes, openRes, stopRes, delRes)

\* The result the SCM can give to a call, its database being s.
ScmAllows(s, call) ==
    CASE call.api = "OpenSCManagerA" -> call.res \in {"Ok", "Err"}
      [] call.api = "CreateServiceA" -> call.res \in CreateRes(s)
      [] call.api = "OpenServiceA" -> call.res \in OpenRes(s)
      [] call.api = "StartServiceA" -> call.res \in StartRes(s)
      [] call.api = "ControlService" -> call.res \in StopRes(s)
      [] call.api = "DeleteService" -> call.res \in DeleteRes(s)
      [] OTHER -> call.res = "Ok"

RECURSIVE Feasible(_, _)
Feasible(s, cs) ==
    IF cs = <<>> THEN TRUE
    ELSE ScmAllows(s, Head(cs)) /\ Feasible(ScmAfter(s, Head(cs)), Tail(cs))

Results == {"Ok", "Err"}
Paths == {"missing", "ok", "nonutf8"}
Modules == {"driver", "service"}

LoadIdle == <<hmgr, hsvc, coreVars, ctxVars, hotVars, enumVars>>

LoadInit ==
    /\ sstate \in ScmStates
    /\ slog = <<>>
    /\ hmgr = FALSE
    /\ hsvc = FALSE
    /\ CoreUnused /\ CtxUnused /\ HotUnused /\ EnumUnused

\* The function op of module m made the calls r.calls and returned r.ret.
\* One program uses one of the two modules; a panic ends it.
LoadLogged(m, op, r) ==
    /\ Len(slog) < MaxLoadOps
    /\ \A i \in DOMAIN slog : slog[i].mod = m /\ slog[i].ret # "panic"
    /\ Feasible(sstate, r.calls)
    /\ slog' = Append(slog, [mod |-> m, op |-> op, calls |-> r.calls, ret |-> r.ret,
                             pre |-> sstate])
    /\ sstate' = ScmApply(sstate, r.calls)

\* What load_driver of module m can do, over the outcomes of its calls.
LoadResults(m) ==
    {IF m = "driver"
     THEN load_driver(path, mgrRes, createRes, openRes, startRes, delRes)
     ELSE service_load_driver(path, mgrRes, createRes, openRes, startRes, delRes) :
        path \in Paths, mgrRes \in Results, createRes \in {"Ok", "Exists", "Err"},
        openRes \in Results, startRes \in {"Ok", "AlreadyRunning", "Err"},
        delRes \in Results}

UnloadResults(m) ==
    {IF m = "driver"
     THEN unload_driver(path, mgrRes, openRes, stopRes, delRes)
     ELSE service_unload_driver(path, mgrRes, openRes, stopRes, delRes) :
        path \in Paths, mgrRes \in Results, openRes \in Results, stopRes \in Results,
        delRes \in Results}

LoadDriver(m) ==
    /\ \E r \in LoadResults(m) : LoadLogged(m, "load_driver", r)
    /\ UNCHANGED LoadIdle

UnloadDriver(m) ==
    /\ \E r \in UnloadResults(m) : LoadLogged(m, "unload_driver", r)
    /\ UNCHANGED LoadIdle

LoadNext ==
    \/ \E m \in Modules : LoadDriver(m)
    \/ \E m \in Modules : UnloadDriver(m)

SpecLoad == LoadInit /\ [][LoadNext]_vars

\* --------------------------------- get_phys_mem_ranges (sys/phys_ranges.rs)
\* The resource map holds at most MaxFull full descriptors and MaxRecords
\* partial descriptors; the memory after the registry value is modelled for
\* PadLen 16-bit units.
MaxFull == 2
MaxRecords == 2
PadLen == 20

\* The registry value is a sequence of 16-bit units, a u64 four of them
\* (least significant first), a u32 two.
U16Span == 65536

\* CmResourceType and CmResourceMemory.
Port == 1
Memory == 3
MemoryLarge == 7
Large40 == 512
Large48 == 1024
Large64 == 2048
CmResourceTypes == {0, 1, 2, 3, 4, 5, 6, 7, 128, 129, 130, 131, 132}

RawSizes == {1, 2}

\* What a partial descriptor of the resource map can be, but for its start.
RecordKinds ==
    {[type |-> Memory, flags |-> 0, size |-> n] : n \in RawSizes}
    \cup {[type |-> MemoryLarge, flags |-> f, size |-> n] :
            f \in {Large40, Large48, Large64}, n \in RawSizes}
    \cup {[type |-> Port, flags |-> 0, size |-> n] : n \in RawSizes}

\* A small number as a u64.
U64Of(n) == <<n % U16Span, n \div U16Span, 0, 0>>

RECURSIVE Flatten(_)
Flatten(ss) == IF ss = <<>> THEN <<>> ELSE Head(ss) \o Flatten(Tail(ss))

\* CmPartialResourceDescriptor, packed(4): type, share_disposition, flags,
\* start, size.
EncodePartial(r) == <<r.type, r.flags>> \o U64Of(r.start) \o U64Of(r.size)

\* CmFullResourceDescriptor as the system lays it out: interface_type,
\* bus_number, version, revision, count, then count partial descriptors.
EncodeFull(d) ==
    <<0, 0, 0, 0, 1, 1, Len(d), 0>> \o Flatten([j \in DOMAIN d |-> EncodePartial(d[j])])

\* CmResourceList: count, then the full descriptors one after the other.
EncodeList(l) == <<Len(l), 0>> \o Flatten([i \in DOMAIN l |-> EncodeFull(l[i])])

\* Reads at an offset (in units) of the memory that begins with the value.
InMem(mem, off, n) == off + n <= Len(mem)
ReadU16(mem, off) == mem[off + 1]
ReadU32(mem, off) == mem[off + 1] + U16Span * mem[off + 2]
ReadU64(mem, off) == <<mem[off + 1], mem[off + 2], mem[off + 3], mem[off + 4]>>

\* u64 << 8: each unit takes the low byte of its own value as its high byte
\* and the high byte of the unit below as its low byte; the high byte of the
\* top unit is lost.
Shl8(x) ==
    <<(x[1] * 256) % U16Span,
      ((x[2] * 256) % U16Span) + (x[1] \div 256),
      ((x[3] * 256) % U16Span) + (x[2] \div 256),
      ((x[4] * 256) % U16Span) + (x[3] \div 256)>>

\* u64 << k, k a multiple of 8.
RECURSIVE Shl(_, _)
Shl(x, k) == IF k = 0 THEN x ELSE Shl(Shl8(x), k - 8)

\* flags & bit != 0, bit being a power of two.
FlagSet(flags, bit) == (flags \div bit) % 2 = 1

\* A scaling that takes Large48 for Large64 and Large64 for Large48.
ScaledSwapped(size, flags) ==
    IF FlagSet(flags, Large40) THEN Shl(size, 8)
    ELSE IF FlagSet(flags, Large48) THEN Shl(size, 32)
    ELSE IF FlagSet(flags, Large64) THEN Shl(size, 16)
    ELSE size

\* The MemoryLarge arm of the match.
Scaled(size, flags) ==
    IF FlagSet(flags, Large40) THEN Shl(size, 8)
    ELSE IF FlagSet(flags, Large48) THEN Shl(size, 16)
    ELSE IF FlagSet(flags, Large64) THEN Shl(size, 32)
    ELSE size

Crash == [crash |-> TRUE, ranges |-> <<>>]

\* The arm of the match a type byte takes; inv is the arm taken by a byte
\* that is no discriminant of CmResourceType.
Arm(ty, inv) ==
    IF ty = Memory THEN "Memory"
    ELSE IF ty = MemoryLarge THEN "MemoryLarge"
    ELSE IF ty \in CmResourceTypes THEN "other"
    ELSE inv

\* for j in 0..count over the partial descriptors of the full descriptor at
\* base: partial_descriptors.as_ptr().add(j).
RECURSIVE PartialLoop(_, _, _, _, _)
PartialLoop(mem, base, count, j, inv) ==
    IF j >= count THEN [crash |-> FALSE, ranges |-> <<>>]
    ELSE LET p == base + 8 + 10 * j
         IN  IF ~InMem(mem, p, 10) THEN Crash
             ELSE LET size == ReadU64(mem, p + 6)
                      arm == Arm(ReadU16(mem, p) % 256, inv)
                  IN  IF arm = "other" THEN [crash |-> FALSE, ranges |-> <<>>]
                      ELSE LET rest == PartialLoop(mem, base, count, j + 1, inv)
                               r == [addr |-> ReadU64(mem, p + 2),
                                     size |-> IF arm = "MemoryLarge"
                                              THEN Scaled(size, ReadU16(mem, p + 1))
                                              ELSE size]
                           IN  IF rest.crash THEN Crash
                               ELSE [crash |-> FALSE, ranges |-> <<r>> \o rest.ranges]

\* for i in 0..resource_list.count: list.as_ptr().add(i), the stride being
\* size_of::<CmFullResourceDescriptor>() = 36 bytes.
RECURSIVE FullLoop(_, _, _, _)
FullLoop(mem, count, i, inv) ==
    IF i >= count THEN [crash |-> FALSE, ranges |-> <<>>]
    ELSE LET base == 2 + 18 * i
         IN  IF ~InMem(mem, base + 6, 2) THEN Crash
             ELSE LET here == PartialLoop(mem, base, ReadU32(mem, base + 6), 0, inv)
                  IN  IF here.crash THEN Crash
                      ELSE LET rest == FullLoop(mem, count, i + 1, inv)
                           IN  IF rest.crash THEN Crash
                               ELSE [crash |-> FALSE,
                                     ranges |-> here.ranges \o rest.ranges]

\* get_phys_mem_ranges once the value is read: Ok(ranges), or the process
\* dies reading memory that is not there.
get_phys_mem_ranges(mem, inv) ==
    IF ~InMem(mem, 0, 2) THEN EnumResult("crash", <<>>)
    ELSE LET r == FullLoop(mem, ReadU32(mem, 0), 0, inv)
         IN  IF r.crash THEN EnumResult("crash", <<>>) ELSE EnumResult("Ok", r.ranges)

\* What the memory after the value can hold.
Pads == {[k \in 1 .. PadLen |-> v] : v \in {0, Memory, 9}}

NumRecords == Len(Flatten(rl))

EnumIdle == <<coreVars, ctxVars, hotVars, svcVars>>

\* The resource map is empty and get_phys_mem_ranges has not been called.
EnumInit ==
    /\ rl = <<>>
    /\ reg = EncodeList(<<>>)
    /\ eout = EnumResult("none", <<>>)
    /\ CoreUnused /\ CtxUnused /\ HotUnused /\ SvcUnused

\* The system adds a full descriptor to the resource map.
RegAddFull ==
    /\ eout.kind = "none"
    /\ Len(rl) < MaxFull
    /\ rl' = Append(rl, <<>>)
    /\ reg' = EncodeList(rl')
    /\ UNCHANGED <<eout, EnumIdle>>

\* The system adds a partial descriptor to the last full descriptor; the
\* starts ascend.
RegAddPartial ==
    /\ eout.kind = "none"
    /\ rl # <<>>
    /\ NumRecords < MaxRecords
    /\ \E k \in RecordKinds :
        rl' = [rl EXCEPT ![Len(rl)] =
                Append(@, [type |-> k.type, flags |-> k.flags, start |-> NumRecords,
                           size |-> k.size])]
    /\ reg' = EncodeList(rl')
    /\ UNCHANGED <<eout, EnumIdle>>

\* get_phys_mem_ranges: the key is opened and the value read.
Enumerate ==
    /\ eout.kind = "none"
    /\ eout' \in {get_phys_mem_ranges(reg \o pad, inv) :
                    pad \in Pads, inv \in {"Memory", "MemoryLarge", "other"}}
    /\ UNCHANGED <<rl, reg, EnumIdle>>

\* get_phys_mem_ranges: open_subkey or get_raw_value fails.
EnumerateErr ==
    /\ eout.kind = "none"
    /\ eout' = EnumResult("Err", <<>>)
    /\ UNCHANGED <<rl, reg, EnumIdle>>

EnumNext ==
    \/ RegAddFull
    \/ RegAddPartial
    \/ Enumerate
    \/ EnumerateErr

SpecEnum == EnumInit /\ [][EnumNext]_vars

\* ================================================================ claims
Maps == {i \in DOMAIN calls : calls[i].op = "map"}
MapOks == {i \in Maps : calls[i].ok}
Unmaps == {i \in DOMAIN calls : calls[i].op = "unmap"}
NoHolder == \A t \in Threads : held[t] = 0
Settled == \A t \in Threads : tpc[t] # "drop"

\* C1: when the driver maps the first k ranges and fails on range k+1, exactly
\* k unmap calls, one for each mapping already obtained, have been issued when
\* the error is returned, and no mapper or translation context is left.
C1_RollbackOnPartialFailure ==
    pc = "failed" =>
        /\ Cardinality(Unmaps) = Cardinality(MapOks)
        /\ \A i \in MapOks : \E j \in Unmaps : j > i /\ calls[j].val = calls[i].val
        /\ mappings = <<>> /\ addr_map = <<>> /\ NoHolder

\* C2: after a full build-then-drop cycle over ranges that all mapped, the
\* number of map calls equals the number of unmap calls and every unmap
\* received a mapping value that an earlier map call returned.
C2_MappingConservation ==
    (pc = "built" /\ NoHolder /\ Settled) =>
        /\ Cardinality(Maps) = Cardinality(Unmaps)
        /\ \A j \in Unmaps : \E i \in MapOks : i < j /\ calls[i].val = calls[j].val

C2_Witness ==
    /\ pc = "built" /\ NoHolder /\ Settled
    /\ Cardinality(Unmaps) >= 2

Stops == {i \in DOMAIN calls : calls[i].op = "stop"}

\* C3: for a context with a driver service, every unmap call for its mappings
\* has been made before the stop control is sent: no unmap follows the stop,
\* and at the stop every mapping the driver returned has been passed to unmap.
C3_TeardownOrdering ==
    \A i \in Stops :
        /\ \A j \in Unmaps : j < i
        /\ \A k \in MapOks : \E j \in Unmaps : j < i /\ calls[j].val = calls[k].val

C3_Witness ==
    /\ Stops # {}
    /\ Cardinality(Unmaps) >= 2
    /\ \E j \in Unmaps : ~calls[j].ok

\* C4: cloning the context issues no map call; while a clone is alive no unmap
\* call has been issued, whichever clones were dropped; once the last clone is
\* dropped and its destructor has finished, every mapping has been unmapped.
C4_CloneSharing ==
    pc = "built" =>
        /\ Cardinality(Maps) = Len(ranges)
        /\ ~NoHolder => Unmaps = {}
        /\ (NoHolder /\ Settled) =>
                {calls[j].val : j \in Unmaps} = {calls[i].val : i \in MapOks}

C4_Witness ==
    /\ pc = "built"
    /\ held[Main] = 0
    /\ \E t \in Threads : held[t] > 0
    /\ Len(mappings) >= 1

\* C5: under any interleaving of clones and drops by several threads the
\* mapper's destructor is entered exactly once, and only when no clone is alive:
\* no clone is alive while or after a mapping is unmapped.
C5_DestructorOnce ==
    /\ dropRuns <= 1
    /\ (dropRuns > 0 \/ Unmaps # {}) => NoHolder
    /\ (pc = "built" /\ NoHolder) => dropRuns = 1

C5_Witness ==
    /\ pc = "built"
    /\ \E t \in Threads : t # Main /\ tpc[t] = "drop"
    /\ Unmaps # {}
    /\ mappings # <<>>

\* C6: after a successful mapping of ranges r_1..r_n the mapper holds exactly n
\* mappings, in the order of the ranges, the i-th being the value the i-th map
\* call returned, with phys_addr = r_i.start_addr and size = r_i.size.
C6_RangeCoverage ==
    (pc = "table" \/ (pc = "built" /\ dropRuns = 0)) =>
        /\ Len(mappings) = Len(ranges)
        /\ \A i \in DOMAIN mappings :
            /\ mappings[i] = calls[i].val
            /\ mappings[i].phys_addr = ranges[i].start_addr
            /\ mappings[i].size = ranges[i].size

C6_Witness ==
    /\ pc = "table"
    /\ Len(mappings) = 2
    /\ ranges[1] # ranges[2]

EntryOf(m) == [base |-> m.phys_addr, size |-> m.size, real_base |-> m.virt_addr]

\* C7: the translation table built from the mapper holds, for every mapping m
\* of the mapper, exactly one entry taking [m.phys_addr, m.phys_addr + m.size)
\* to the virtual interval at m.virt_addr, holds no other entry, and its
\* entries do not overlap in the physical-address domain.
C7_TranslationFidelity ==
    (pc = "built" /\ dropRuns = 0) =>
        /\ Len(addr_map) = Len(mappings)
        /\ \A i \in DOMAIN mappings :
            Cardinality({j \in DOMAIN addr_map : addr_map[j] = EntryOf(mappings[i])}) = 1
        /\ \A j, k \in DOMAIN addr_map :
            j < k => addr_map[j].base + addr_map[j].size <= addr_map[k].base

C7_Witness ==
    /\ pc = "built" /\ dropRuns = 0
    /\ Len(addr_map) = 2
    /\ mappings[1].phys_addr > mappings[2].phys_addr

\* C8: once the connector is constructed, no physical read or write issues a
\* driver map or unmap call: a step of the batched read or write leaves the
\* driver's record unchanged.
C8_HotPathNoDriverCalls ==
    [][(HotReadElem \/ HotWriteElem) => calls' = calls]_vars

\* C9: over any sequence of construct, clone and drop, each mapping returned by
\* the driver's map is passed to unmap at most once.
C9_NoDoubleUnmap ==
    \A i, j \in Unmaps : calls[i].val.id = calls[j].val.id => i = j

C9_Witness ==
    /\ \E t \in Threads : t # Main /\ tpc[t] = "done"
    /\ Cardinality(Unmaps) >= 2

\* C10: a failing unmap in the destructor is swallowed: the loop goes on, and
\* when the destructor has finished unmap was attempted on every mapping the
\* mapper held, whichever of the calls failed.
C10_BestEffortTeardown ==
    \A t \in Threads :
        /\ tpc[t] \in {"drop", "done"} =>
                Cardinality(Unmaps) + Len(mappings) = Cardinality(MapOks)
        /\ tpc[t] = "done" =>
                \A i \in MapOks : \E j \in Unmaps : calls[j].val = calls[i].val

C10_Witness ==
    /\ \E t \in Threads : tpc[t] = "done"
    /\ \E j, k \in Unmaps : j < k /\ ~calls[j].ok

StartOps == {i \in DOMAIN slog : slog[i].op = "start"}
Issued(i, api) == {k \in DOMAIN slog[i].calls : slog[i].calls[k].api = api}
Queried(i) == slog[i].calls # <<>> /\ slog[i].calls[1] = ScmCall("QueryServiceStatus", "service", "Ok")

\* C11: Service::start on a service whose queried state is Running returns
\* success without a StartServiceA request; in any other queried state it
\* issues exactly one StartServiceA and returns that request's result.
C11_IdempotentStart ==
    \A i \in StartOps :
        Queried(i) =>
            IF slog[i].pre = 4
            THEN slog[i].ret = "Ok" /\ Issued(i, "StartServiceA") = {}
            ELSE /\ Issued(i, "StartServiceA") = {2}
                 /\ Len(slog[i].calls) = 2
                 /\ (slog[i].ret = "Ok") = (slog[i].calls[2].res = "Ok")

\* A start that started the service, followed by a start that found it
\* running.
C11_Witness ==
    \E i \in StartOps :
        /\ i + 1 \in StartOps
        /\ Issued(i, "StartServiceA") # {} /\ slog[i].ret = "Ok"
        /\ Queried(i + 1) /\ slog[i + 1].pre = 4 /\ slog[i + 1].ret = "Ok"
        /\ Issued(i + 1, "StartServiceA") = {}

CreateOps == {i \in DOMAIN slog : slog[i].op = "create_service" /\ slog[i].calls # <<>>}

\* C12: when CreateServiceA fails with 'service already exists',
\* create_service opens the existing service and returns the result of that
\* open; on any other creation error it returns the error without an open;
\* on success it returns the created service without an open.
C12_CreateOrOpen ==
    \A i \in CreateOps :
        LET cs == slog[i].calls
        IN  /\ cs[1].api = "CreateServiceA"
            /\ IF cs[1].res = "Exists"
               THEN Len(cs) = 2 /\ cs[2].api = "OpenServiceA" /\ slog[i].ret = cs[2].res
               ELSE Len(cs) = 1 /\ slog[i].ret = cs[1].res

\* A creation that found the service already there and whose open failed:
\* the open's error is the result.
C12_Witness ==
    \E i \in CreateOps :
        /\ slog[i].calls[1].res = "Exists"
        /\ slog[i].calls[2] = ScmCall("OpenServiceA", "service", "Err")
        /\ slog[i].ret = "Err"

LoadOps == {i \in DOMAIN slog : slog[i].op = "load_driver"}
StartOf(i) == {k \in DOMAIN slog[i].calls : slog[i].calls[k].api = "StartServiceA"}

Acquired(i) ==
    {slog[i].calls[k].h : k \in {j \in DOMAIN slog[i].calls :
        /\ slog[i].calls[j].api \in {"OpenSCManagerA", "CreateServiceA", "OpenServiceA"}
        /\ slog[i].calls[j].res = "Ok"}}
Closed(i) == {slog[i].calls[k].h : k \in Issued(i, "CloseServiceHandle")}

\* C14: when load_driver returns an error, every handle it acquired (the
\* SCM's, the service's) has been closed.
C14_NoLeakOnError ==
    \A i \in LoadOps : slog[i].ret = "Err" => Acquired(i) \subseteq Closed(i)

\* C15: DeleteService is issued only by an explicit deletion call
\* (unload_driver); load_driver never issues it.
C15_StopOnly ==
    \A i \in DOMAIN slog : Issued(i, "DeleteService") # {} => slog[i].op = "unload_driver"

Enumerated == eout.kind = "Ok"
IsMemory(r) == r.type \in {Memory, MemoryLarge}

\* The number of records at the head of a full descriptor that are Memory
\* or MemoryLarge.
RECURSIVE Lead(_)
Lead(d) == IF d = <<>> \/ ~IsMemory(Head(d)) THEN 0 ELSE 1 + Lead(Tail(d))

\* The size of the range of a record as section 4.1 gives it; the raw sizes
\* are below 2^16.
ExpectedSize(r) ==
    IF r.type = Memory THEN <<r.size, 0, 0, 0>>
    ELSE IF r.flags = Large40
         THEN <<(r.size * 256) % U16Span, (r.size * 256) \div U16Span, 0, 0>>
    ELSE IF r.flags = Large48 THEN <<0, r.size, 0, 0>>
    ELSE <<0, 0, r.size, 0>>

\* C16: the size of the range of a MemoryLarge record is its raw size
\* shifted left by 8 under flag 0x200, by 16 under 0x400, by 32 under 0x800,
\* and the size of the range of a Memory record is its raw size (stated of
\* the records of the first full descriptor, whose ranges come first).
C16_LargeMemoryScaling ==
    Enumerated /\ rl # <<>> =>
        \A j \in 1 .. Lead(rl[1]) :
            /\ j <= Len(eout.ranges)
            /\ eout.ranges[j].size = ExpectedSize(rl[1][j])

\* Raw size 1 under 0x800 has become 1 << 32 and raw size 2 under 0x400 has
\* become 0x20000.
C16_Witness ==
    /\ Enumerated /\ rl # <<>> /\ Lead(rl[1]) >= 2
    /\ \E j \in 1 .. Lead(rl[1]) :
        /\ rl[1][j].type = MemoryLarge /\ rl[1][j].flags = Large64 /\ rl[1][j].size = 1
        /\ eout.ranges[j].size = <<0, 0, 1, 0>>
    /\ \E j \in 1 .. Lead(rl[1]) :
        /\ rl[1][j].type = MemoryLarge /\ rl[1][j].flags = Large48 /\ rl[1][j].size = 2
        /\ eout.ranges[j].size = <<0, 2, 0, 0>>

ExpectedRange(r) == [addr |-> <<r.start, 0, 0, 0>>, size |-> ExpectedSize(r)]
ExpectedOf(d) == [j \in 1 .. Lead(d) |-> ExpectedRange(d[j])]

\* The enumeration read nothing beyond the registry value.
WithinValue == get_phys_mem_ranges(reg, "other").kind = "Ok"

\* C17: the ranges are those of the records of each full descriptor up to
\* its first record that is neither Memory nor MemoryLarge, full descriptor
\* after full descriptor, in the order of the resource map (stated of the
\* enumerations that stay within the registry value).
C17_AbortOnlyDescriptor ==
    Enumerated /\ WithinValue =>
        eout.ranges = Flatten([i \in DOMAIN rl |-> ExpectedOf(rl[i])])

Tags(q) == {q[k] : k \in DOMAIN q}
Pending == {inp[k].tag : k \in DOMAIN inp}
FailedCalls == {i \in DOMAIN calls : ~calls[i].ok}

\* C18: with both sinks given, every element handed to a batched read or
\* write is waiting or has been reported to exactly one sink, no element is
\* dropped by the failure of another, the elements in the failure sink are
\* as many as the driver requests that failed (an element ends at its first
\* failed request), and the batch call returns Ok.
C18_BatchNeverFails ==
    /\ hret \in {"none", "Ok"}
    /\ hpc = "idle" /\ begun > 0 => hret = "Ok"
    /\ sinks.out /\ sinks.fail =>
        /\ Tags(out) \cup Tags(out_fail) \cup Pending = 1 .. begun
        /\ Tags(out) \cap Tags(out_fail) = {}
        /\ Cardinality(Tags(out)) = Len(out)
        /\ Cardinality(Tags(out_fail)) = Len(out_fail)
        /\ Len(out_fail) = Cardinality(FailedCalls)

\* A batch has returned Ok after its first element failed and its second
\* element succeeded.
C18_Witness ==
    /\ sinks.out /\ sinks.fail
    /\ hpc = "idle" /\ hret = "Ok"
    /\ out_fail = <<1>> /\ out = <<2>>

\* C19: every copy of a chunked read of total bytes at base is chunk i of
\* it, for some i: min(4096, total - 4096 i) bytes from base + 4096 i into
\* buffer offset 4096 i.
C19_ChunkedRead ==
    \A k \in DOMAIN copies :
        copies[k].dir = "read" /\ copies[k].total >= PAGE_SIZE =>
            \E i \in 0 .. NumChunks(copies[k].total, PAGE_SIZE) - 1 :
                /\ copies[k].off = PAGE_SIZE * i
                /\ copies[k].phys = copies[k].base + PAGE_SIZE * i
                /\ copies[k].len = Min(PAGE_SIZE, copies[k].total - PAGE_SIZE * i)

\* C20: a successful RTCore64 map returns a mapping whose virt_addr is the
\* address the driver answered and whose phys_addr is the requested address.
C20_MapReturnsDriverOutput ==
    \A i \in MapOks :
        /\ calls[i].val.virt_addr = calls[i].out
        /\ calls[i].val.phys_addr = calls[i].req.addr


\* C21: the unmap request sent to the RTCore64 driver for a mapping carries as
\* its address the virtual address the driver answered to that mapping's map
\* request.
C21_UnmapRoundTrip ==
    \A j \in Unmaps : \A i \in MapOks :
        calls[j].val = calls[i].val => calls[j].req.addr = calls[i].out


\* Ok map calls whose mapping no unmap call has been made for.
Live == {i \in MapOks : \A j \in Unmaps : calls[j].val # calls[i].val}

\* C22: when a map of the driver fails inside map_ranges, no later range is
\* passed to the driver's map, and the mappings collected so far in this
\* map_ranges are unmapped, the last one created first, as the error returns.
C22_RollbackInReverse ==
    [][pc = "map" /\ pc' = "failed" =>
        /\ Len(calls') = Len(calls) + 1 + Len(collected)
        /\ ~calls'[Len(calls) + 1].ok
        /\ \A i \in 1 .. Len(collected) :
            /\ calls'[Len(calls) + 1 + i].op = "unmap"
            /\ calls'[Len(calls) + 1 + i].val = collected[Len(collected) + 1 - i]]_vars

\* C27: outside a running map_ranges, every mapping the driver returned and no
\* unmap was called for is in the mapper's mappings list (while the mapper is
\* alive), and once the mapper is dropped no such mapping is left.
C27_MappingsHoldEveryLive ==
    (pc # "map" /\ tpc[Main] # "drop") =>
        \A i \in Live :
            /\ held[Main] = 1
            /\ \E k \in DOMAIN mappings : mappings[k] = calls[i].val


\* C23: the unmap request sent to the WinIo driver carries the section_handle,
\* virt_addr and obj_handle the driver filled in on the map of that mapping,
\* and its size and phys_addr are zero.
C23_UnmapEchoesHandles ==
    \A j \in Unmaps :
        /\ j - 1 \in MapOks
        /\ calls[j].val = calls[j - 1].val
        /\ calls[j].req.section_handle = calls[j - 1].val.section_handle
        /\ calls[j].req.virt_addr = calls[j - 1].val.virt_addr
        /\ calls[j].req.obj_handle = calls[j - 1].val.obj_handle
        /\ calls[j].req.size = 0
        /\ calls[j].req.phys_addr = 0

C23_Witness ==
    \E j \in Unmaps :
        /\ calls[j].val.phys_addr # 0
        /\ calls[j].val.size # 0
        /\ calls[j].val.virt_addr # 0
        /\ calls[j].val.section_handle # calls[j].val.obj_handle


\* C24: for every size passed to the RTCore64 map_phys_mem, sizes of 2^32 and
\* more included, the size recorded in the returned mapping is not larger than
\* the size the request carried to the driver in its 32-bit field.
C24_SizeNotLargerThanRequested ==
    \A i \in MapOks : calls[i].val.size <= calls[i].req.size


\* C25: a load_driver that got as far as CreateServiceA returns Ok or Err,
\* whatever the outcomes of opening the SCM, creating the service, opening
\* the existing service and starting it; it does not panic.
C25_LoadNeverPanics ==
    \A i \in LoadOps :
        Issued(i, "CreateServiceA") # {} => slog[i].ret \in {"Ok", "Err"}


UnloadOps == {i \in DOMAIN slog : slog[i].op = "unload_driver"}

\* C26: unload_driver issues DeleteService only directly after a stop control
\* that succeeded; when the stop control fails it issues no DeleteService,
\* closes the service's and the SCM's handle and returns the error.
C26_DeleteOnlyAfterStop ==
    \A i \in UnloadOps :
        LET cs == slog[i].calls
        IN  /\ \A k \in Issued(i, "DeleteService") :
                k > 1 /\ cs[k - 1].api = "ControlService" /\ cs[k - 1].res = "Ok"
            /\ \A k \in Issued(i, "ControlService") :
                cs[k].res # "Ok" =>
                    /\ Issued(i, "DeleteService") = {}
                    /\ Closed(i) = {"service", "scm"}
                    /\ slog[i].ret = "Err"

\* An unload_driver whose stop control failed.
C26_Witness ==
    \E i \in UnloadOps : \E k \in Issued(i, "ControlService") :
        /\ slog[i].calls[k].res # "Ok"
        /\ slog[i].ret = "Err"


\* The k-th successful map call of the driver's record.
OkMapAt(k) == CHOOSE i \in MapOks : Cardinality({j \in MapOks : j <= i}) = k

\* C28: in phys_read_raw_into and phys_write_raw, an operation whose map
\* succeeded makes its one copy through that mapping and then exactly one
\* unmap request, for that same mapping; an operation whose map failed makes no
\* copy and no unmap request; an operation reported Ok had its map and its
\* unmap succeed; so after any sequence of operations an unmap request has been
\* made for every mapping.
C28_MapUnmapPairing ==
    /\ Len(copies) = Cardinality(MapOks)
    /\ Cardinality(Unmaps) = Cardinality(MapOks)
    /\ \A i \in FailedCalls :
        calls[i].op = "map" => i = Len(calls) \/ calls[i + 1].op = "map"
    /\ \A k \in DOMAIN copies :
        LET i == OkMapAt(k)
        IN  /\ i + 1 \in Unmaps
            /\ calls[i + 1].val = calls[i].val
            /\ copies[k].virt = calls[i].val.virt_addr
            /\ copies[k].phys = calls[i].req.phys_addr
            /\ copies[k].len = calls[i].req.size
            /\ copies[k].tag \in Tags(out) => calls[i + 1].ok
    /\ \A t \in Tags(out) : \E k \in DOMAIN copies : copies[k].tag = t

\* One operation was reported Ok, another failed in its unmap after its copy.
C28_Witness ==
    /\ Len(out) = 1 /\ Len(out_fail) = 1
    /\ \E k \in DOMAIN copies :
        copies[k].tag \in Tags(out_fail) /\ ~calls[OkMapAt(k) + 1].ok
    /\ \E k \in DOMAIN copies : copies[k].dir = "write"

====
